---- MODULE Spec2Model ----
(***************************************************************************)
(* Model of the Tiendita point-of-sale backend (src/backend/main.py):      *)
(* the product table, the sale ledger and the pending accounts, and the    *)
(* HTTP handlers that change them.  Every handler runs in its own          *)
(* SQLAlchemy session (autoflush off, autocommit off); a handler that      *)
(* raises before db.commit() leaves nothing behind, because get_db closes  *)
(* the session and the uncommitted changes are discarded.                  *)
(*                                                                         *)
(* Prices are Float columns in the source.  The model draws prices from    *)
(* small integers, on which float addition and multiplication are exact.   *)
(***************************************************************************)
EXTENDS Integers, Sequences, FiniteSets, TLC

\* ---- bounds of the model ----
MaxId == 2          \* product ids in requests are 1..MaxId
MaxProductos == 1   \* rows of the table productos
MaxCantidad == 2    \* quantities in a product body are MinCantidad..MaxCantidad
MaxPedido == 1      \* quantities in a request item are MinCantidad or 1..MaxPedido
MaxPrecio == 2      \* prices in a product body are 1..MaxPrecio
MaxItems == 2       \* items in one request
MaxVentas == 2      \* rows of the table ventas
MaxCuentas == 1     \* rows of the table cuentas_pendientes
MaxFilas == 2       \* detail rows written by reservations (sales and accounts together)
MaxSesiones == 2    \* requests in flight at once, each in its own session

\* pydantic's int accepts negative numbers: ProductoCreate.cantidad and
\* DetalleVentaCreate.cantidad carry no validator.
MinCantidad == 0 - 1

Nombres == {"n1", "n2"}
Codigos == {"c1", "c2"}
Clientes == {"Ana"}

VARIABLES
    productos,   \* table productos: id -> [nombre, codigo_barras, precio, cantidad]
    ventas,      \* table ventas with detalles_venta: sequence, id = position
    cuentas,     \* table cuentas_pendientes with its detalles: sequence, id = position
    resp,        \* the last request and its HTTP status
    origen,      \* history: for each sale, "directa" (crear_venta) or "cuenta" (pagar)
    inicial,     \* history: id -> quantity the product was created with
    sesiones     \* per request in flight: what its session has read and not yet committed

vars == <<productos, ventas, cuentas, resp, origen, inicial, sesiones>>

\* ---- request bodies ----
ProductoCreate(nombres, codigos, precios, cantidades) ==
    [nombre : nombres, codigo_barras : codigos, precio : precios, cantidad : cantidades]

\* quantities of request items: a negative one and the positive ones
CantidadesPedido == {MinCantidad} \cup 1..MaxPedido

DetalleVentaCreate == [producto_id : 1..MaxId, cantidad : CantidadesPedido]

Listas(S, n) == UNION {[1..k -> S] : k \in 0..n}

VentaCreate == Listas(DetalleVentaCreate, MaxItems)

Respuesta(op, status, id) == [op |-> op, status |-> status, id |-> id]

\* ---- helpers ----
Max(S) == CHOOSE x \in S : \A y \in S : y <= x

\* INTEGER PRIMARY KEY without AUTOINCREMENT: SQLite gives max(rowid) + 1.
NuevoId(tabla) == IF DOMAIN tabla = {} THEN 1 ELSE Max(DOMAIN tabla) + 1

\* a column without the unique index
CodigoLibre(tabla, id, codigo) == FALSE

\* unique=True on codigo_barras: the row `id` may not take a barcode another row has.
CodigoRepetido(tabla, id, codigo) ==
    \E q \in DOMAIN tabla : q # id /\ tabla[q].codigo_barras = codigo

\* a delete that removes nothing
QuitarNada(tabla, id) == tabla

\* db.delete(db_producto)
Quitar(tabla, id) == [q \in DOMAIN tabla \ {id} |-> tabla[q]]

Poner(tabla, id, fila) == [q \in DOMAIN tabla \cup {id} |-> IF q = id THEN fila ELSE tabla[q]]

\* ---- the reservation loop shared by crear_venta, crear_cuenta_pendiente and
\* agregar_productos_cuenta_pendiente.  `sesion` is the session's view of the
\* table productos: the identity map hands back the same object for the same id,
\* so an item sees the decrements of the earlier items of the request.

\* an off-by-one in the stock check
InsuficienteEstricto(producto, item) == producto.cantidad <= item.cantidad

\* if producto.cantidad < item.cantidad: raise HTTPException(400)
Insuficiente(producto, item) == producto.cantidad < item.cantidad

\* a loop that records the item and forgets the decrement
DescontarNada(sesion, item) == sesion

\* producto.cantidad -= item.cantidad
Descontar(sesion, item) ==
    [sesion EXCEPT ![item.producto_id].cantidad = @ - item.cantidad]

\* a row that captures no price
DetalleSinPrecio(producto, item) ==
    [producto_id |-> item.producto_id,
     cantidad |-> item.cantidad,
     precio_unitario |-> 0]

\* Detalle...DB(producto_id=producto.id, cantidad=item.cantidad, precio_unitario=producto.precio)
Detalle(producto, item) ==
    [producto_id |-> item.producto_id,
     cantidad |-> item.cantidad,
     precio_unitario |-> producto.precio]

\* a loop that looks every product up before it checks any stock
RECURSIVE ReservarBuscandoAntes(_, _, _, _, _)
ReservarBuscandoAntes(sesion, items, i, total, detalles_db) ==
    IF \E k \in i..Len(items) : items[k].producto_id \notin DOMAIN sesion
    THEN [status |-> 404, sesion |-> sesion, total |-> total, detalles |-> detalles_db]
    ELSE IF i > Len(items)
    THEN [status |-> 200, sesion |-> sesion, total |-> total, detalles |-> detalles_db]
    ELSE LET item == items[i]
             producto == sesion[item.producto_id] IN
         IF Insuficiente(producto, item)
         THEN [status |-> 400, sesion |-> sesion, total |-> total,
               detalles |-> detalles_db]
         ELSE ReservarBuscandoAntes(Descontar(sesion, item), items, i + 1,
                                    total + producto.precio * item.cantidad,
                                    Append(detalles_db, Detalle(producto, item)))

RECURSIVE Reservar(_, _, _, _, _)
Reservar(sesion, items, i, total, detalles_db) ==
    IF i > Len(items)
    THEN [status |-> 200, sesion |-> sesion, total |-> total, detalles |-> detalles_db]
    ELSE LET item == items[i] IN
         IF item.producto_id \notin DOMAIN sesion
         THEN [status |-> 404, sesion |-> sesion, total |-> total, detalles |-> detalles_db]
         ELSE LET producto == sesion[item.producto_id] IN
              IF Insuficiente(producto, item)
              THEN [status |-> 400, sesion |-> sesion, total |-> total,
                    detalles |-> detalles_db]
              ELSE Reservar(Descontar(sesion, item), items, i + 1,
                            total + producto.precio * item.cantidad,
                            Append(detalles_db, Detalle(producto, item)))

\* a handler that flushed the session before raising would leave the partial
\* decrements behind
PersistidoSucio(r, antes) == r.sesion

\* get_db: the session is closed when the handler returns or raises; only what
\* db.commit() wrote survives.  `r` is the result of the loop, `antes` the table
\* as committed before the request.
Persistido(r, antes) == IF r.status = 200 THEN r.sesion ELSE antes

\* The response loops read d.producto.nombre: a detail whose product row is gone
\* has producto = None and the attribute access raises (HTTP 500).
Colgado(tabla, detalles) ==
    \E k \in 1..Len(detalles) : detalles[k].producto_id \notin DOMAIN tabla

\* a query that filters on the id alone
CuentaExiste(tabla, cuenta_id) == cuenta_id \in 1..Len(tabla)

\* the filter of pagar_cuenta_pendiente and agregar_productos_cuenta_pendiente
CuentaPendiente(tabla, cuenta_id) ==
    cuenta_id \in 1..Len(tabla) /\ tabla[cuenta_id].estado = "pendiente"

\* a settle that records the total and forgets the rows
VentaSinDetalles(cuenta) == [total |-> cuenta.total, detalles |-> <<>>]

\* VentaDB(total=cuenta.total, detalles=[DetalleVentaDB(...) for d in cuenta.detalles])
VentaDeCuenta(cuenta) == [total |-> cuenta.total, detalles |-> cuenta.detalles]

\* a settle that forgets the state change
PagadaSinEstado(cuenta) == cuenta

\* cuenta.estado = "pagada"
Pagada(cuenta) == [cuenta EXCEPT !.estado = "pagada"]

\* an append that assigns the added total instead of adding it
AgregadaSinSuma(cuenta, r) ==
    [cuenta EXCEPT !.total = r.total, !.detalles = @ \o r.detalles]

\* db.add(detalle) for every item, then cuenta.total += total_agregado
Agregada(cuenta, r) ==
    [cuenta EXCEPT !.total = @ + r.total, !.detalles = @ \o r.detalles]

\* GET /api/cuentas_pendientes: the ids of the rows the query returns
listar_cuentas_pendientes(tabla) == {c \in 1..Len(tabla) : tabla[c].estado = "pendiente"}

\* rows of the detail tables that reservations wrote: those of the accounts and
\* those of the sales made by crear_venta (pagar copies rows, it reserves nothing)
RECURSIVE FilasDirectas(_, _)
FilasDirectas(vs, os) ==
    IF vs = <<>> THEN 0
    ELSE (IF Head(os) = "directa" THEN Len(Head(vs).detalles) ELSE 0)
         + FilasDirectas(Tail(vs), Tail(os))

RECURSIVE FilasCuentas(_)
FilasCuentas(cs) == IF cs = <<>> THEN 0 ELSE Len(Head(cs).detalles) + FilasCuentas(Tail(cs))

Filas == FilasDirectas(ventas, origen) + FilasCuentas(cuentas)

\* the tables stay within the bounds of the model
Tope ==
    /\ Cardinality(DOMAIN productos) <= MaxProductos
    /\ Len(ventas) <= MaxVentas
    /\ Len(cuentas) <= MaxCuentas
    /\ Filas <= MaxFilas

\* SessionLocal(): a session that has read nothing
Libre == [op |-> "libre", cuenta_id |-> 0, sesion |-> <<>>, total |-> 0, detalles |-> <<>>]

\* ---- state after construction: create_all on an empty database ----
Init ==
    /\ productos = <<>>
    /\ ventas = <<>>
    /\ cuentas = <<>>
    /\ resp = Respuesta("inicio", 200, 0)
    /\ origen = <<>>
    /\ inicial = <<>>
    /\ sesiones = [s \in 1..MaxSesiones |-> Libre]

\* ---- POST /api/productos ----
crear_producto(producto) ==
    LET id == NuevoId(productos) IN
    /\ IF CodigoRepetido(productos, id, producto.codigo_barras)
       THEN /\ resp' = Respuesta("crear_producto", 400, 0)
            /\ UNCHANGED productos
       ELSE /\ productos' = Poner(productos, id, producto)
            /\ resp' = Respuesta("crear_producto", 200, id)
    /\ UNCHANGED <<ventas, cuentas, origen>>

\* ---- PUT /api/productos/{producto_id} ----
editar_producto(producto_id, producto) ==
    /\ IF producto_id \notin DOMAIN productos
       THEN /\ resp' = Respuesta("editar_producto", 404, producto_id)
            /\ UNCHANGED productos
       ELSE IF CodigoRepetido(productos, producto_id, producto.codigo_barras)
       THEN /\ resp' = Respuesta("editar_producto", 400, producto_id)
            /\ UNCHANGED productos
       ELSE /\ productos' = Poner(productos, producto_id, producto)
            /\ resp' = Respuesta("editar_producto", 200, producto_id)
    /\ UNCHANGED <<ventas, cuentas, origen>>

\* ---- DELETE /api/productos/{producto_id} ----
eliminar_producto(producto_id) ==
    /\ IF producto_id \notin DOMAIN productos
       THEN /\ resp' = Respuesta("eliminar_producto", 404, producto_id)
            /\ UNCHANGED productos
       ELSE /\ productos' = Quitar(productos, producto_id)
            /\ resp' = Respuesta("eliminar_producto", 200, producto_id)
    /\ UNCHANGED <<ventas, cuentas, origen>>

\* ---- POST /api/ventas ----
crear_venta(venta) ==
    LET r == Reservar(productos, venta, 1, 0, <<>>) IN
    /\ productos' = Persistido(r, productos)
    /\ IF r.status = 200
       THEN /\ ventas' = Append(ventas, [total |-> r.total, detalles |-> r.detalles])
            /\ origen' = Append(origen, "directa")
       ELSE UNCHANGED <<ventas, origen>>
    /\ resp' = Respuesta("crear_venta", r.status,
                         IF r.status = 200 THEN Len(ventas) + 1 ELSE 0)
    /\ UNCHANGED cuentas

\* ---- POST /api/cuentas_pendientes ----
crear_cuenta_pendiente(nombre_cliente, detalles) ==
    LET r == Reservar(productos, detalles, 1, 0, <<>>) IN
    /\ productos' = Persistido(r, productos)
    /\ IF r.status = 200
       THEN /\ cuentas' = Append(cuentas,
                                 [nombre_cliente |-> nombre_cliente, estado |-> "pendiente",
                                  total |-> r.total, detalles |-> r.detalles])
       ELSE UNCHANGED cuentas
    /\ resp' = Respuesta("crear_cuenta_pendiente", r.status,
                         IF r.status = 200 THEN Len(cuentas) + 1 ELSE 0)
    /\ UNCHANGED <<ventas, origen>>

\* ---- POST /api/cuentas_pendientes/{cuenta_id}/pagar ----
pagar_cuenta_pendiente(cuenta_id) ==
    /\ IF ~CuentaPendiente(cuentas, cuenta_id)
       THEN /\ resp' = Respuesta("pagar_cuenta_pendiente", 404, cuenta_id)
            /\ UNCHANGED <<ventas, cuentas, origen>>
       ELSE LET cuenta == cuentas[cuenta_id] IN
            /\ ventas' = Append(ventas, VentaDeCuenta(cuenta))
            /\ origen' = Append(origen, "cuenta")
            /\ cuentas' = [cuentas EXCEPT ![cuenta_id] = Pagada(cuenta)]
            /\ resp' = Respuesta("pagar_cuenta_pendiente",
                                 IF Colgado(productos, cuenta.detalles) THEN 500 ELSE 200,
                                 cuenta_id)
    /\ UNCHANGED productos

\* ---- POST /api/cuentas_pendientes/{cuenta_id}/agregar_productos ----
agregar_productos_cuenta_pendiente(cuenta_id, detalles) ==
    /\ IF ~CuentaPendiente(cuentas, cuenta_id)
       THEN /\ resp' = Respuesta("agregar_productos_cuenta_pendiente", 404, cuenta_id)
            /\ UNCHANGED <<productos, cuentas>>
       ELSE LET cuenta == cuentas[cuenta_id]
                r == Reservar(productos, detalles, 1, 0, <<>>) IN
            /\ productos' = Persistido(r, productos)
            /\ IF r.status = 200
               THEN /\ cuentas' = [cuentas EXCEPT ![cuenta_id] = Agregada(cuenta, r)]
                    /\ resp' = Respuesta("agregar_productos_cuenta_pendiente",
                                         IF Colgado(productos', cuentas'[cuenta_id].detalles)
                                         THEN 500 ELSE 200,
                                         cuenta_id)
               ELSE /\ UNCHANGED cuentas
                    /\ resp' = Respuesta("agregar_productos_cuenta_pendiente", r.status,
                                         cuenta_id)
    /\ UNCHANGED <<ventas, origen>>

\* ---- Spec: every request; one product row at a time, so one name and one
\* barcode are enough for the bodies ----
Cuerpos == ProductoCreate({"n1"}, {"c1"}, 1..MaxPrecio, MinCantidad..MaxCantidad)

Acotado(A) == A /\ Tope' /\ UNCHANGED <<inicial, sesiones>>

Next ==
    \/ \E producto \in Cuerpos : Acotado(crear_producto(producto))
    \/ \E producto_id \in 1..MaxId, producto \in Cuerpos :
          Acotado(editar_producto(producto_id, producto))
    \/ \E producto_id \in 1..MaxId : Acotado(eliminar_producto(producto_id))
    \/ \E venta \in VentaCreate : Acotado(crear_venta(venta))
    \/ \E nombre_cliente \in Clientes, detalles \in VentaCreate :
          Acotado(crear_cuenta_pendiente(nombre_cliente, detalles))
    \/ \E cuenta_id \in 1..MaxCuentas : Acotado(pagar_cuenta_pendiente(cuenta_id))
    \/ \E cuenta_id \in 1..MaxCuentas, detalles \in VentaCreate :
          Acotado(agregar_productos_cuenta_pendiente(cuenta_id, detalles))

Spec == Init /\ [][Next]_vars

\* ---- SpecProductos: the requests on the table productos, up to MaxId rows,
\* with two names, two barcodes, the extreme prices and the extreme quantities ----
CuerposProductos ==
    ProductoCreate(Nombres, Codigos, {1, MaxPrecio}, {MinCantidad, MaxCantidad})

AcotadoProductos(A) ==
    A /\ DOMAIN productos' \subseteq 1..MaxId /\ UNCHANGED <<inicial, sesiones>>

NextProductos ==
    \/ \E producto \in CuerposProductos : AcotadoProductos(crear_producto(producto))
    \/ \E producto_id \in 1..MaxId, producto \in CuerposProductos :
          AcotadoProductos(editar_producto(producto_id, producto))
    \/ \E producto_id \in 1..MaxId : AcotadoProductos(eliminar_producto(producto_id))

SpecProductos == Init /\ [][NextProductos]_vars

\* ---- SpecSinEdicion: runs with no product update and no product delete;
\* `inicial` records the quantity each product was created with ----
ConInicial(A) ==
    /\ A
    /\ Tope'
    /\ UNCHANGED sesiones
    /\ inicial' = [q \in DOMAIN productos' |->
                     IF q \in DOMAIN inicial THEN inicial[q] ELSE productos'[q].cantidad]

NextSinEdicion ==
    \/ \E producto \in Cuerpos : ConInicial(crear_producto(producto))
    \/ \E venta \in VentaCreate : ConInicial(crear_venta(venta))
    \/ \E nombre_cliente \in Clientes, detalles \in VentaCreate :
          ConInicial(crear_cuenta_pendiente(nombre_cliente, detalles))
    \/ \E cuenta_id \in 1..MaxCuentas : ConInicial(pagar_cuenta_pendiente(cuenta_id))
    \/ \E cuenta_id \in 1..MaxCuentas, detalles \in VentaCreate :
          ConInicial(agregar_productos_cuenta_pendiente(cuenta_id, detalles))

SpecSinEdicion == Init /\ [][NextSinEdicion]_vars

\* ---- SpecSesiones: requests in flight together.  The handlers are plain
\* `def`s, which FastAPI runs on a thread pool, each with its own session
\* (get_db) on the one SQLite file.  Nothing in the code locks a row or the
\* store: a SELECT of a session holds no lock once it has returned (the
\* transaction opens at the first INSERT or UPDATE, which is inside db.commit()
\* since autoflush is off), so between the reads of a handler and its commit
\* another request can read and commit.  A commit is one SQLite transaction.
\* Product bodies and accounts are created by requests that run alone.

\* the UPDATE statements of the flush: each product the session changed is
\* written with the quantity the session computed from what it had read
Flush(tabla, sesion, detalles) ==
    [q \in DOMAIN tabla |->
       IF \E k \in 1..Len(detalles) : detalles[k].producto_id = q
       THEN [tabla[q] EXCEPT !.cantidad = sesion[q].cantidad]
       ELSE tabla[q]]

\* crear_venta up to db.add(venta_db): the loop over the items
crear_venta_reservar(s, venta) ==
    LET r == Reservar(productos, venta, 1, 0, <<>>) IN
    /\ sesiones[s] = Libre
    /\ IF r.status = 200
       THEN /\ sesiones' = [sesiones EXCEPT ![s] =
                              [op |-> "crear_venta", cuenta_id |-> 0, sesion |-> r.sesion,
                               total |-> r.total, detalles |-> r.detalles]]
            /\ UNCHANGED resp
       ELSE /\ resp' = Respuesta("crear_venta", r.status, 0)
            /\ UNCHANGED sesiones
    /\ UNCHANGED <<productos, ventas, cuentas, origen>>

\* crear_venta from db.commit() on
crear_venta_commit(s) ==
    /\ sesiones[s].op = "crear_venta"
    /\ productos' = Flush(productos, sesiones[s].sesion, sesiones[s].detalles)
    /\ ventas' = Append(ventas, [total |-> sesiones[s].total,
                                 detalles |-> sesiones[s].detalles])
    /\ origen' = Append(origen, "directa")
    /\ resp' = Respuesta("crear_venta", 200, Len(ventas) + 1)
    /\ sesiones' = [sesiones EXCEPT ![s] = Libre]
    /\ UNCHANGED cuentas

\* pagar_cuenta_pendiente up to cuenta.estado = "pagada": the query on the
\* account and the copy of its rows
pagar_cuenta_pendiente_query(s, cuenta_id) ==
    /\ sesiones[s] = Libre
    /\ IF ~CuentaPendiente(cuentas, cuenta_id)
       THEN /\ resp' = Respuesta("pagar_cuenta_pendiente", 404, cuenta_id)
            /\ UNCHANGED sesiones
       ELSE /\ sesiones' = [sesiones EXCEPT ![s] =
                              [op |-> "pagar_cuenta_pendiente", cuenta_id |-> cuenta_id,
                               sesion |-> <<>>, total |-> cuentas[cuenta_id].total,
                               detalles |-> cuentas[cuenta_id].detalles]]
            /\ UNCHANGED resp
    /\ UNCHANGED <<productos, ventas, cuentas, origen>>

\* pagar_cuenta_pendiente from db.commit() on: INSERT the sale and its rows,
\* UPDATE cuentas_pendientes SET estado = 'pagada' WHERE id = cuenta_id
pagar_cuenta_pendiente_commit(s) ==
    LET cuenta_id == sesiones[s].cuenta_id IN
    /\ sesiones[s].op = "pagar_cuenta_pendiente"
    /\ ventas' = Append(ventas, VentaDeCuenta(sesiones[s]))
    /\ origen' = Append(origen, "cuenta")
    /\ cuentas' = [cuentas EXCEPT ![cuenta_id] = Pagada(@)]
    /\ resp' = Respuesta("pagar_cuenta_pendiente",
                         IF Colgado(productos, cuentas[cuenta_id].detalles)
                         THEN 500 ELSE 200,
                         cuenta_id)
    /\ sesiones' = [sesiones EXCEPT ![s] = Libre]
    /\ UNCHANGED productos

\* the item lists of SpecSesiones: at most one entry
VentaCreateBreve == Listas(DetalleVentaCreate, 1)

EnSesion(A) ==
    /\ A
    /\ Tope'
    /\ inicial' = [q \in DOMAIN productos' |->
                     IF q \in DOMAIN inicial THEN inicial[q] ELSE productos'[q].cantidad]

NextSesiones ==
    \/ \E producto \in Cuerpos : EnSesion(crear_producto(producto) /\ UNCHANGED sesiones)
    \/ \E nombre_cliente \in Clientes, detalles \in VentaCreateBreve :
          EnSesion(crear_cuenta_pendiente(nombre_cliente, detalles) /\ UNCHANGED sesiones)
    \/ \E s \in 1..MaxSesiones, venta \in VentaCreateBreve :
          EnSesion(crear_venta_reservar(s, venta))
    \/ \E s \in 1..MaxSesiones : EnSesion(crear_venta_commit(s))
    \/ \E s \in 1..MaxSesiones, cuenta_id \in 1..MaxCuentas :
          EnSesion(pagar_cuenta_pendiente_query(s, cuenta_id))
    \/ \E s \in 1..MaxSesiones : EnSesion(pagar_cuenta_pendiente_commit(s))

SpecSesiones == Init /\ [][NextSesiones]_vars

(***************************************************************************)
(* The claims                                                              *)
(***************************************************************************)
OpsLista == {"crear_venta", "crear_cuenta_pendiente", "agregar_productos_cuenta_pendiente"}

\* what the earlier items 1..n of a request take from product p
RECURSIVE Tomado(_, _, _)
Tomado(items, p, n) ==
    IF n = 0 THEN 0
    ELSE Tomado(items, p, n - 1)
         + (IF items[n].producto_id = p THEN items[n].cantidad ELSE 0)

\* item i names no product
FaltaProducto(tabla, items, i) == items[i].producto_id \notin DOMAIN tabla

\* item i asks for more than the stock left at its turn
FaltaStock(tabla, items, i) ==
    /\ items[i].producto_id \in DOMAIN tabla
    /\ items[i].cantidad >
          tabla[items[i].producto_id].cantidad - Tomado(items, items[i].producto_id, i - 1)

AlgunaFalla(tabla, items) ==
    \E i \in 1..Len(items) : FaltaProducto(tabla, items, i) \/ FaltaStock(tabla, items, i)

\* the request with the item list d that a step carries out
PideLista(d) ==
    \/ crear_venta(d)
    \/ \E nombre_cliente \in Clientes : crear_cuenta_pendiente(nombre_cliente, d)
    \/ \E cuenta_id \in 1..MaxCuentas : agregar_productos_cuenta_pendiente(cuenta_id, d)

\* C1: in every reachable state every product's quantity on hand is >= 0.
\* The code refutes it: ProductoCreate.cantidad is an unvalidated int.
C1_CantidadNoNegativa == \A q \in DOMAIN productos : productos[q].cantidad >= 0

\* C2: a create-sale, open-account or append request whose item list has an entry
\* that fails (unknown product, or more than the stock left at its turn) fails,
\* and products, sales and accounts are exactly as before the request.
\* Stated on every step of a list request: a refused one changes nothing, and one
\* that was not refused carried no list with a failing entry.
C2_FalloSinCambios ==
    [][resp'.op \in OpsLista =>
         IF resp'.status \in {400, 404}
         THEN /\ productos' = productos
              /\ ventas' = ventas
              /\ cuentas' = cuentas
         ELSE \A d \in VentaCreate : AlgunaFalla(productos, d) => ~PideLista(d)]_vars

\* a request of quantities <= 1 was refused for lack of stock although stock is
\* left: its first item was reserved and the reservation was discarded
C2_Testigo ==
    /\ resp.op \in OpsLista
    /\ resp.status = 400
    /\ \E q \in DOMAIN productos : productos[q].cantidad = MaxPedido

\* sales made by settling, and accounts settled
RECURSIVE Cuantos(_, _)
Cuantos(seq, valor) ==
    IF seq = <<>> THEN 0
    ELSE (IF Head(seq) = valor THEN 1 ELSE 0) + Cuantos(Tail(seq), valor)

Estados(cs) == [c \in 1..Len(cs) |-> cs[c].estado]

\* C3: settling creates at most one Sale per account: a settle of an account that
\* is already settled fails and leaves the sales and the account unchanged.
C3_PagarUnaVez ==
    [][/\ Cuantos(origen', "cuenta") = Cuantos(Estados(cuentas'), "pagada")
       /\ (/\ resp'.op = "pagar_cuenta_pendiente"
           /\ resp'.id \in 1..Len(cuentas)
           /\ cuentas[resp'.id].estado = "pagada")
          => /\ resp'.status >= 400
             /\ ventas' = ventas
             /\ cuentas' = cuentas]_vars

\* a settle was refused on an account that is settled and has its one Sale
C3_Testigo ==
    /\ resp.op = "pagar_cuenta_pendiente"
    /\ resp.status = 404
    /\ resp.id \in 1..Len(cuentas)
    /\ cuentas[resp.id].estado = "pagada"
    /\ Len(cuentas[resp.id].detalles) > 0
    /\ Cuantos(origen, "cuenta") = 1

CuentaPagada(tabla, cuenta_id) ==
    cuenta_id \in 1..Len(tabla) /\ tabla[cuenta_id].estado = "pagada"

RECURSIVE SumaDetalles(_)
SumaDetalles(detalles) ==
    IF detalles = <<>> THEN 0
    ELSE Head(detalles).cantidad * Head(detalles).precio_unitario
         + SumaDetalles(Tail(detalles))

\* C6: in every reachable state each account's total is the sum over its rows
\* of quantity times captured unit price.
C6_TotalEsSuma ==
    \A c \in 1..Len(cuentas) : cuentas[c].total = SumaDetalles(cuentas[c].detalles)

\* an account opened at one price and extended at another
C6_Testigo ==
    \E c \in 1..Len(cuentas) :
        /\ Len(cuentas[c].detalles) = 2
        /\ cuentas[c].detalles[1].precio_unitario # cuentas[c].detalles[2].precio_unitario
        /\ cuentas[c].detalles[1].cantidad > 0
        /\ cuentas[c].detalles[2].cantidad > 0

\* the first entry that fails is one that lacks stock
PrimeraFallaStock(tabla, items) ==
    \E i \in 1..Len(items) :
        /\ FaltaStock(tabla, items, i)
        /\ \A j \in 1..(i - 1) :
              ~FaltaProducto(tabla, items, j) /\ ~FaltaStock(tabla, items, j)

RECURSIVE Importe(_, _, _)
Importe(tabla, items, n) ==
    IF n = 0 THEN 0
    ELSE Importe(tabla, items, n - 1)
         + items[n].cantidad * tabla[items[n].producto_id].precio

\* C7: a create-sale whose entries all name a product and ask for no more than
\* the stock on hand at their turn succeeds: each product's quantity goes down by
\* what was asked of it, one Sale is added, and its total is the sum of quantity
\* times the product's price at the call.  A create-sale whose first failing entry
\* asks for more than the stock fails with 400 and the stock is unchanged.
C7_VentaCorrecta ==
    [][resp'.op = "crear_venta" =>
         \A v \in VentaCreate : crear_venta(v) =>
            /\ ~AlgunaFalla(productos, v) =>
                  /\ resp'.status = 200
                  /\ DOMAIN productos' = DOMAIN productos
                  /\ \A q \in DOMAIN productos :
                        productos'[q] =
                          [productos[q] EXCEPT !.cantidad = @ - Tomado(v, q, Len(v))]
                  /\ Len(ventas') = Len(ventas) + 1
                  /\ SubSeq(ventas', 1, Len(ventas)) = ventas
                  /\ ventas'[Len(ventas')].total = Importe(productos, v, Len(v))
                  /\ ventas'[Len(ventas')].detalles =
                        [i \in 1..Len(v) |->
                           [producto_id |-> v[i].producto_id,
                            cantidad |-> v[i].cantidad,
                            precio_unitario |-> productos[v[i].producto_id].precio]]
            /\ PrimeraFallaStock(productos, v) =>
                  /\ resp'.status = 400
                  /\ productos' = productos
                  /\ ventas' = ventas]_vars

\* a sale of two rows went through and took the last unit of a product
C7_Testigo ==
    /\ resp.op = "crear_venta"
    /\ resp.status = 200
    /\ Len(ventas[resp.id].detalles) = 2
    /\ ventas[resp.id].total > 0
    /\ \E q \in DOMAIN productos : productos[q].cantidad = 0

\* C8: a successful settle of a pending account makes the account settled and
\* adds exactly one Sale, with the account's total and the account's rows in the
\* same order; the account is no longer in the list of active accounts.
C8_PagarArchiva ==
    [][(resp'.op = "pagar_cuenta_pendiente" /\ resp'.status = 200) =>
         LET id == resp'.id IN
         /\ id \in listar_cuentas_pendientes(cuentas)
         /\ Len(cuentas') = Len(cuentas)
         /\ cuentas'[id] = [cuentas[id] EXCEPT !.estado = "pagada"]
         /\ \A c \in 1..Len(cuentas) : c # id => cuentas'[c] = cuentas[c]
         /\ Len(ventas') = Len(ventas) + 1
         /\ SubSeq(ventas', 1, Len(ventas)) = ventas
         /\ ventas'[Len(ventas')].total = cuentas[id].total
         /\ ventas'[Len(ventas')].detalles = cuentas[id].detalles
         /\ id \notin listar_cuentas_pendientes(cuentas')]_vars

\* an account of two rows was settled
C8_Testigo ==
    /\ resp.op = "pagar_cuenta_pendiente"
    /\ resp.status = 200
    /\ Len(cuentas[resp.id].detalles) = 2
    /\ cuentas[resp.id].total > 0
    /\ ventas[Len(ventas)].detalles = cuentas[resp.id].detalles

SinCodigoRepetido(tabla) ==
    \A p, q \in DOMAIN tabla : p # q => tabla[p].codigo_barras # tabla[q].codigo_barras

\* the barcode of the body is on file in a row other than `id`
CodigoEnUso(tabla, id, cuerpo) ==
    \E q \in DOMAIN tabla \ {id} : tabla[q].codigo_barras = cuerpo.codigo_barras

\* C9: no two products ever share a barcode: a create with a barcode that exists
\* fails with 400, adds no product and leaves the products as they were; an update
\* that would give a product another product's barcode is refused without change.
\* Stated on every step: the table has no repeated barcode, a create or update
\* answered 400 changes no product, and one not answered 400 carried no body
\* with a barcode in use.
C9_CodigoUnico ==
    [][/\ SinCodigoRepetido(productos')
       /\ resp'.op = "crear_producto" =>
             IF resp'.status = 400 THEN productos' = productos
             ELSE \A cuerpo \in CuerposProductos :
                     CodigoEnUso(productos, 0, cuerpo) => ~crear_producto(cuerpo)
       /\ (resp'.op = "editar_producto" /\ resp'.id \in DOMAIN productos) =>
             IF resp'.status = 400 THEN productos' = productos
             ELSE \A cuerpo \in CuerposProductos :
                     CodigoEnUso(productos, resp'.id, cuerpo)
                        => ~editar_producto(resp'.id, cuerpo)]_vars

\* with two products on file, an update was refused
C9_Testigo ==
    /\ resp.op = "editar_producto"
    /\ resp.status = 400
    /\ Cardinality(DOMAIN productos) = 2

\* the quantity of product p in a list of rows
RECURSIVE EnDetalles(_, _)
EnDetalles(detalles, p) ==
    IF detalles = <<>> THEN 0
    ELSE (IF Head(detalles).producto_id = p THEN Head(detalles).cantidad ELSE 0)
         + EnDetalles(Tail(detalles), p)

RECURSIVE VendidoDirecto(_, _, _)
VendidoDirecto(vs, os, p) ==
    IF vs = <<>> THEN 0
    ELSE (IF Head(os) = "directa" THEN EnDetalles(Head(vs).detalles, p) ELSE 0)
         + VendidoDirecto(Tail(vs), Tail(os), p)

RECURSIVE EnCuentas(_, _)
EnCuentas(cs, p) ==
    IF cs = <<>> THEN 0
    ELSE EnDetalles(Head(cs).detalles, p) + EnCuentas(Tail(cs), p)

\* C10: in a run with no product update or delete, for each product the amount
\* its stock went down since creation equals the quantity of it in the rows of
\* the directly created Sales plus the rows of all accounts, pending or settled.
C10_StockYLibros ==
    \A p \in DOMAIN productos :
        inicial[p] - productos[p].cantidad
          = VendidoDirecto(ventas, origen, p) + EnCuentas(cuentas, p)

\* a product sold directly and on an account that has been settled, after a
\* refused request
C10_Testigo ==
    \E p \in DOMAIN productos :
        /\ VendidoDirecto(ventas, origen, p) > 0
        /\ EnCuentas(cuentas, p) > 0
        /\ Cuantos(origen, "cuenta") > 0
        /\ resp.status = 400

\* C11: when two create-sale requests for one product run together, each in its
\* own session, and the stock is enough for one of them and not for both, they
\* never both succeed: the quantity of a product in the rows of the sales and the
\* accounts never exceeds the quantity the product was created with.
\* The code refutes it: both sessions read the stock before either commits.
C11_NoSobreventa ==
    \A p \in DOMAIN productos :
        inicial[p] >= 0 =>
            VendidoDirecto(ventas, origen, p) + EnCuentas(cuentas, p) <= inicial[p]

\* C12: a settle either answers with the settled account, one new Sale being
\* recorded, or reports a failure and leaves the account and the sales exactly as
\* before; it never reports a failure after the commit.
\* The code refutes it: the response is built after db.commit() and reads
\* d.producto.nombre, which raises when a row's product has been deleted.
C12_PagarTodoONada ==
    [][resp'.op = "pagar_cuenta_pendiente" =>
         IF resp'.status = 200
         THEN /\ Len(ventas') = Len(ventas) + 1
              /\ CuentaPagada(cuentas', resp'.id)
         ELSE /\ ventas' = ventas
              /\ cuentas' = cuentas]_vars

\* the first entry that fails is one that names no product
PrimeraFallaProducto(tabla, items) ==
    \E i \in 1..Len(items) :
        /\ FaltaProducto(tabla, items, i)
        /\ \A j \in 1..(i - 1) :
              ~FaltaProducto(tabla, items, j) /\ ~FaltaStock(tabla, items, j)

\* the request with the item list d that a step carries out as far as its loop
PideListaEnCurso(d) ==
    \/ /\ resp'.op = "crear_venta"
       /\ crear_venta(d)
    \/ /\ resp'.op = "crear_cuenta_pendiente"
       /\ \E nombre_cliente \in Clientes : crear_cuenta_pendiente(nombre_cliente, d)
    \/ /\ resp'.op = "agregar_productos_cuenta_pendiente"
       /\ CuentaPendiente(cuentas, resp'.id)
       /\ agregar_productos_cuenta_pendiente(resp'.id, d)

\* C13: the items of a request are validated in list order and the first failing
\* entry alone decides the error: 404 when it names a missing product, even if a
\* later entry lacks stock; 400 when it lacks stock, even if a later entry names
\* a missing product.
\* Stated on every step of a list request: one not answered 404 carried no list
\* whose first failing entry names a missing product, and one not answered 400
\* carried no list whose first failing entry lacks stock.
C13_PrimeraFallaDecide ==
    [][resp'.op \in OpsLista =>
         /\ resp'.status # 404 =>
               \A d \in VentaCreate :
                   PrimeraFallaProducto(productos, d) => ~PideListaEnCurso(d)
         /\ resp'.status # 400 =>
               \A d \in VentaCreate :
                   PrimeraFallaStock(productos, d) => ~PideListaEnCurso(d)]_vars

\* a list request was answered 404 while the product on file has less stock than
\* any positive quantity: its lists of two entries have one entry of each kind
C13_Testigo ==
    /\ resp.op \in OpsLista
    /\ resp.status = 404
    /\ resp.op = "agregar_productos_cuenta_pendiente" => CuentaPendiente(cuentas, resp.id)
    /\ \E q \in DOMAIN productos : productos[q].cantidad < 1
    /\ DOMAIN productos # 1..MaxId

\* C14: every account is created pending, and under requests run one after the
\* other its only change of state is pending -> settled: once an account is
\* settled, no later request changes its state, its total or its rows.
C14_PagadaEsTerminal ==
    [][/\ Len(cuentas') >= Len(cuentas)
       /\ \A c \in 1..Len(cuentas) :
             /\ cuentas[c].estado = "pagada" => cuentas'[c] = cuentas[c]
             /\ cuentas'[c].estado # cuentas[c].estado =>
                   /\ cuentas[c].estado = "pendiente"
                   /\ cuentas'[c].estado = "pagada"
       /\ \A c \in (Len(cuentas) + 1)..Len(cuentas') :
             cuentas'[c].estado = "pendiente"]_vars

\* after an account with a row was settled, the price of the row's product was
\* changed, and the account still has the row as it was captured
C14_Testigo ==
    /\ resp.op = "editar_producto"
    /\ resp.status = 200
    /\ \E c \in 1..Len(cuentas) :
          /\ cuentas[c].estado = "pagada"
          /\ \E k \in 1..Len(cuentas[c].detalles) :
                /\ cuentas[c].detalles[k].producto_id = resp.id
                /\ cuentas[c].detalles[k].precio_unitario # productos[resp.id].precio

\* C15: a Sale is immutable and its rows carry the price captured at sale time:
\* the rows of a Sale made by create-sale have the price the product had at the
\* call, and once a Sale exists no later request (a price update, a later sale,
\* append or settle) changes its total or any of its rows.
C15_VentaInmutable ==
    [][/\ Len(ventas') >= Len(ventas)
       /\ SubSeq(ventas', 1, Len(ventas)) = ventas
       /\ (resp'.op = "crear_venta" /\ resp'.status = 200) =>
             /\ Len(ventas') = Len(ventas) + 1
             /\ \A k \in 1..Len(ventas'[Len(ventas')].detalles) :
                   LET d == ventas'[Len(ventas')].detalles[k] IN
                   d.precio_unitario = productos[d.producto_id].precio]_vars

\* the price of a product was changed after it was sold, and the Sale still has
\* the old price
C15_Testigo ==
    /\ resp.op = "editar_producto"
    /\ resp.status = 200
    /\ \E v \in 1..Len(ventas) :
          \E k \in 1..Len(ventas[v].detalles) :
              /\ ventas[v].detalles[k].producto_id = resp.id
              /\ ventas[v].detalles[k].precio_unitario # productos[resp.id].precio
              /\ ventas[v].total = SumaDetalles(ventas[v].detalles)

\* C16: every row recorded in a Sale or an account has a quantity that is a
\* positive integer, whatever integer quantities the requests carry.
\* The code refutes it: the loop only refuses a quantity above the stock, and a
\* negative quantity is never above it.
C16_CantidadPositiva ==
    /\ \A v \in 1..Len(ventas) :
          \A k \in 1..Len(ventas[v].detalles) : ventas[v].detalles[k].cantidad > 0
    /\ \A c \in 1..Len(cuentas) :
          \A k \in 1..Len(cuentas[c].detalles) : cuentas[c].detalles[k].cantidad > 0

\* the lists of two entries that name the same product
Repetidos == {d \in VentaCreate : Len(d) = 2 /\ d[1].producto_id = d[2].producto_id}

\* C17: the entries of a request see the reservations of its earlier entries: a
\* create-sale, open-account or append that lists one product in two entries of
\* quantities q1 and q2 succeeds only if q1 + q2 <= the stock before the request,
\* and then the stock goes down by q1 + q2; if q1 <= stock < q1 + q2 it fails
\* with 400 and the stock is unchanged.
C17_EntradasRepetidas ==
    [][resp'.op \in OpsLista =>
         \A d \in Repetidos :
             (d[1].producto_id \in DOMAIN productos /\ PideListaEnCurso(d)) =>
                 LET p == d[1].producto_id
                     q1 == d[1].cantidad
                     q2 == d[2].cantidad
                     stock == productos[p].cantidad
                 IN /\ resp'.status \notin {400, 404} =>
                          /\ q1 + q2 <= stock
                          /\ productos'[p].cantidad = stock - (q1 + q2)
                    /\ (q1 <= stock /\ stock < q1 + q2) =>
                          /\ resp'.status = 400
                          /\ productos' = productos]_vars

\* an account was opened with two rows of one product, one unit each, and they
\* took the last two units
C17_Testigo ==
    /\ resp.op = "crear_cuenta_pendiente"
    /\ resp.status = 200
    /\ LET filas == cuentas[resp.id].detalles IN
       /\ Len(filas) = 2
       /\ filas[1].producto_id = filas[2].producto_id
       /\ filas[1].cantidad = 1
       /\ filas[2].cantidad = 1
       /\ filas[1].producto_id \in DOMAIN productos
       /\ productos[filas[1].producto_id].cantidad = 0

\* C18: when two settle requests for one pending account run together, each in
\* its own session, exactly one succeeds and exactly one Sale is created for the
\* account: there are never more Sales made by settling than settled accounts.
\* The code refutes it: both sessions read the account as pending.
C18_UnaVentaPorCuenta ==
    Cuantos(origen, "cuenta") <= Cuantos(Estados(cuentas), "pagada")

\* C19: a delete of a product on file succeeds even when rows of Sales or
\* accounts name it, removes that product alone, and leaves every Sale and every
\* account (state, total, rows) unchanged; a delete of a missing id fails with
\* 404 and changes nothing.
C19_EliminarNoTocaLibros ==
    [][resp'.op = "eliminar_producto" =>
         /\ ventas' = ventas
         /\ cuentas' = cuentas
         /\ resp'.id \in DOMAIN productos =>
               /\ resp'.status = 200
               /\ DOMAIN productos' = DOMAIN productos \ {resp'.id}
               /\ \A q \in DOMAIN productos' : productos'[q] = productos[q]
         /\ resp'.id \notin DOMAIN productos =>
               /\ resp'.status = 404
               /\ productos' = productos]_vars

\* a product named by a row of a Sale and by a row of an account was deleted
C19_Testigo ==
    /\ resp.op = "eliminar_producto"
    /\ resp.status = 200
    /\ resp.id \notin DOMAIN productos
    /\ \E v \in 1..Len(ventas) : EnDetalles(ventas[v].detalles, resp.id) > 0
    /\ \E c \in 1..Len(cuentas) : EnDetalles(cuentas[c].detalles, resp.id) > 0

\* C20: a settle makes no reservation: whether it succeeds or fails it leaves
\* every product's quantity unchanged, the stock having been taken when the rows
\* were put on the account (an open-account that succeeds takes from each product
\* the quantity of its rows), so no row is charged against the stock twice.
C20_PagarNoReserva ==
    [][/\ resp'.op = "pagar_cuenta_pendiente" => productos' = productos
       /\ (resp'.op = "crear_cuenta_pendiente" /\ resp'.status = 200) =>
             \A q \in DOMAIN productos :
                 productos'[q].cantidad =
                     productos[q].cantidad - EnDetalles(cuentas'[resp'.id].detalles, q)]_vars

\* an account with a row was settled while the row's product had stock enough
\* to be charged again
C20_Testigo ==
    /\ resp.op = "pagar_cuenta_pendiente"
    /\ resp.status = 200
    /\ \E k \in 1..Len(cuentas[resp.id].detalles) :
          LET d == cuentas[resp.id].detalles[k] IN
          /\ d.cantidad > 0
          /\ d.producto_id \in DOMAIN productos
          /\ productos[d.producto_id].cantidad >= d.cantidad

====
